---- MODULE Spec2Model ----
(***************************************************************************)
(* Model of SpeedrunClient (src/src/client.ts): the category resolver, the *)
(* leaderboard enumeration and the edit/move orchestration, as a state     *)
(* machine whose steps are the continuations between two awaits.  A step    *)
(* receives the response to the remote call in flight, runs the code up to  *)
(* the next await and issues the next remote call.                          *)
(*                                                                          *)
(* JavaScript values: null is None (the empty sequence) and a non-null      *)
(* value v is Some(v); booleans returned by the client are the strings      *)
(* "true" / "false", and "undefined" is a function falling off its end.     *)
(***************************************************************************)
EXTENDS Integers, Sequences, FiniteSets, TLC

\* ---------------------------------------------------------------- bounds
MaxCats == 2
MaxNames == 2
MaxVals == 2
MaxRuns == 3
MaxPer == 2

VARIABLES
    gameData,      \* server: the game snapshot GetGameData answers with
    leaderboard,   \* server: [count, per] of the leaderboard of the game
    settings,      \* server: run id -> run settings
    op,            \* the public method called, with its arguments
    pc,            \* await point of the public method
    local,         \* local variables of the public method
    result,        \* what the public method's promise settled to
    res,           \* frame of getSubcategoryIdFromNames
    enum,          \* frame of getAllRunsInCategory
    edit,          \* frame of editRun
    move,          \* frame of moveRunToCategoryWithId
    inflight,      \* remote calls issued and not yet answered
    log            \* remote calls answered, in order, with their status

world == <<gameData, leaderboard, settings>>
vars == <<gameData, leaderboard, settings, op, pc, local, result, res, enum, edit, move, inflight, log>>

\* ------------------------------------------------------------ JS values
None == <<>>
Some(x) == <<x>>
SeqsUpTo(S, n) == UNION {[1..k -> S] : k \in 0..n}
Min(S) == CHOOSE x \in S : \A y \in S : x <= y
Max(S) == CHOOSE x \in S : \A y \in S : x >= y

\* ------------------------------------------------------- the game fixture
GameUrl == "g"
Game == [id |-> "G1", url |-> GameUrl]
CategoryIds == {"c1", "c2"}
CategoryNames == {"Any", "Low"}
Category == [id : CategoryIds, name : CategoryNames]
Variables ==
    << [id |-> "v1", categoryId |-> "c1", isSubcategory |-> TRUE],
       [id |-> "v2", categoryId |-> "c1", isSubcategory |-> TRUE],
       [id |-> "v3", categoryId |-> "c2", isSubcategory |-> TRUE],
       [id |-> "v4", categoryId |-> "c1", isSubcategory |-> FALSE] >>
Values ==
    << [id |-> "d", name |-> "N", variableId |-> "v3"],
       [id |-> "a", name |-> "N", variableId |-> "v1"],
       [id |-> "b", name |-> "P", variableId |-> "v1"],
       [id |-> "c", name |-> "E", variableId |-> "v2"],
       [id |-> "f", name |-> "P", variableId |-> "v2"],
       [id |-> "e", name |-> "H", variableId |-> "v4"],
       [id |-> "z", name |-> "Z", variableId |-> "v1"] >>
ValueNames == {"N", "P", "E", "H"}
GameData(categories) ==
    [game |-> Game, categories |-> categories, variables |-> Variables, values |-> Values]
FixtureCategories == << [id |-> "c1", name |-> "Any"], [id |-> "c2", name |-> "Low"] >>

\* RunSettings.values: an array of selections, null, or (once a move assigned it)
\* undefined
Array(items) == [kind |-> "array", items |-> items]
Null == [kind |-> "null", items |-> <<>>]
Undefined == [kind |-> "undefined", items |-> <<>>]
\* server side only: a selection list no response has shown yet
Unobserved == [kind |-> "unobserved", items |-> <<>>]
\* the selections a run may carry: values of the fixture, v4 not a subcategory
Selection ==
    { [variableId |-> "v1", valueId |-> "a"], [variableId |-> "v1", valueId |-> "z"],
      [variableId |-> "v2", valueId |-> "c"], [variableId |-> "v4", valueId |-> "e"] }
RunSettings(runId, values) ==
    [runId |-> runId, categoryId |-> "c1", comment |-> "old", values |-> values]
\* EditParams: any subset of the editable fields
EditParamValue(k) ==
    CASE k = "categoryId" -> "c2"
      [] k = "comment" -> "new"
      [] k = "values" -> Array(<<[variableId |-> "v3", valueId |-> "d"]>>)
EditParams == {[k \in D |-> EditParamValue(k)] : D \in SUBSET {"categoryId", "comment", "values"}}

\* a name-based category reference (category.ts SpeedrunCategory)
SpeedrunCategory(gameUrls, categoryNames, names) ==
    [gameUrl : gameUrls, categoryName : categoryNames, subcategoryNames : SeqsUpTo(names, MaxNames)]
NoCategory == [gameUrl |-> "", categoryName |-> "", subcategoryNames |-> <<>>]

\* ----------------------------------------------------------- transport
\* the credentials the client was constructed with (client.ts:51-58)
csrfToken == "csrf"
\* Object.assign(target, source): every own key of source overwrites target's
AssignKeepTarget(target, source) ==
    [k \in DOMAIN target \cup DOMAIN source |->
        IF k \in DOMAIN target THEN target[k] ELSE source[k]]
Assign(target, source) ==
    [k \in DOMAIN target \cup DOMAIN source |->
        IF k \in DOMAIN source THEN source[k] ELSE target[k]]
Request(route, body) == [route |-> route, body |-> body]
\* getRequest / postRequest: postRequest embeds the token when useToken is set
getRequest(route, params) == Request(route, params)
postRequest(route, body, useToken) ==
    Request(route, IF useToken THEN Assign(body, [csrfToken |-> csrfToken]) ELSE body)
\* the statuses the call in flight may be answered with, 404 standing for every
\* status other than 200; an unknown game or run is never answered with 200
Statuses ==
    CASE inflight[1].route = "GetGameData" /\ inflight[1].body.gameUrl # gameData.game.url -> {404}
      [] inflight[1].route = "GetRunSettings" /\ inflight[1].body.runId \notin DOMAIN settings -> {404}
      [] OTHER -> {200, 404}
\* the answered call as the log keeps it; data is the payload handed to the caller
\* (left out for GetGameData, whose payload is always the snapshot gameData)
Completed(status, data) ==
    Append(log, [route |-> inflight[1].route, body |-> inflight[1].body,
                 status |-> status, data |-> data])
\* getGameData: the payload on status 200, null otherwise
getGameData(status) == IF status = 200 THEN Some(gameData) ELSE None
getGameDataByUrl(gameUrl) == getRequest("GetGameData", [gameUrl |-> gameUrl])

\* ---------------------------------------------------------------- frames
ResIdle ==
    [pc |-> "idle", category |-> NoCategory, gameId |-> "", categoryId |-> "", i |-> 0,
     subcategoryValues |-> <<>>, gameData |-> None, subcategoryVariables |-> <<>>, ret |-> None]
EnumIdle ==
    [pc |-> "idle", category |-> NoCategory, i |-> 0, runs |-> <<>>, totalPages |-> 0,
     ret |-> None]
EditIdle == [pc |-> "idle", runId |-> 0, params |-> <<>>, ret |-> "undefined"]
MoveIdle ==
    [pc |-> "idle", runId |-> 0, oldCategory |-> None, newCategory |-> None,
     oldSettings |-> None, ret |-> "undefined"]
NoLocal == [runs |-> None, k |-> 0, oldCategoryId |-> None, newCategoryId |-> None]
NoResult == [kind |-> "none", value |-> None]
Returned(v) == [kind |-> "returned", value |-> v]
Fault == [kind |-> "fault", value |-> None]

\* an uncaught TypeError rejects every pending promise up to the caller
Throw ==
    /\ pc' = "done"
    /\ result' = Fault
    /\ res' = ResIdle
    /\ enum' = EnumIdle
    /\ edit' = EditIdle
    /\ move' = MoveIdle
    /\ inflight' = <<>>

\* ------------------------------------------------------- getCategoryId
\* the scan of gameData.categories: the first category of that name
FindCategoryLast(categories, categoryName) ==
    LET hits == {k \in DOMAIN categories : categories[k].name = categoryName}
    IN  IF hits = {} THEN None ELSE Some(categories[Max(hits)].id)
FindCategory(categories, categoryName) ==
    LET hits == {k \in DOMAIN categories : categories[k].name = categoryName}
    IN  IF hits = {} THEN None ELSE Some(categories[Min(hits)].id)
\* getCategoryId after its fetch answered `fetched`
getCategoryId(fetched, categoryName) ==
    IF fetched = None THEN None ELSE FindCategory(fetched[1].categories, categoryName)

StartGetCategoryId ==
    /\ pc = "idle"
    /\ \E gameUrl \in {GameUrl, "zz"}, categoryName \in CategoryNames :
        /\ op' = [name |-> "getCategoryId", gameUrl |-> gameUrl, categoryName |-> categoryName]
        /\ inflight' = <<getGameDataByUrl(gameUrl)>>
    /\ pc' = "getCategoryId"
    /\ UNCHANGED <<world, local, result, res, enum, edit, move, log>>

GetCategoryIdDone ==
    /\ pc = "getCategoryId"
    /\ \E status \in Statuses :
        /\ log' = Completed(status, None)
        /\ result' = Returned(getCategoryId(getGameData(status), op.categoryName))
    /\ pc' = "done"
    /\ inflight' = <<>>
    /\ UNCHANGED <<world, op, local, res, enum, edit, move>>

\* ------------------------------------------- getSubcategoryIdFromNames
ResReturn(v) == [ResIdle EXCEPT !.pc = "ret", !.ret = v]
\* the call: the frame at its first await, and the fetch it issues
CallResolver(category) == [ResIdle EXCEPT !.pc = "L307", !.category = category]

\* line 307: gameData fetched; line 312 calls getCategoryId
Resolve307 ==
    /\ res.pc = "L307"
    /\ \E status \in Statuses :
        LET fetched == getGameData(status) IN
        /\ log' = Completed(status, None)
        /\ IF fetched = None
           THEN res' = ResReturn(None) /\ inflight' = <<>>
           ELSE /\ res' = [res EXCEPT !.pc = "L312", !.gameId = fetched[1].game.id]
                /\ inflight' = <<getGameDataByUrl(res.category.gameUrl)>>
    /\ UNCHANGED <<world, op, pc, local, result, enum, edit, move>>

\* lines 312-326 with no name left to resolve, else the call of line 319 down
\* to the fetch of getAllVariablesInCategory (line 258)
NextName(frame) ==
    IF frame.i > Len(frame.category.subcategoryNames)
    THEN ResReturn(Some([gameId |-> frame.gameId, categoryId |-> frame.categoryId,
                         subcategories |-> frame.subcategoryValues]))
    ELSE [frame EXCEPT !.pc = "L258"]
NextFetch(frame) ==
    IF frame.pc = "ret" THEN <<>> ELSE <<getGameDataByUrl(frame.category.gameUrl)>>

\* line 312: getCategoryId answered
Resolve312 ==
    /\ res.pc = "L312"
    /\ \E status \in Statuses :
        LET categoryId == getCategoryId(getGameData(status), res.category.categoryName)
            next == NextName([res EXCEPT !.categoryId = categoryId[1], !.i = 1,
                                         !.subcategoryValues = <<>>])
        IN
        /\ log' = Completed(status, None)
        /\ IF categoryId = None
           THEN res' = ResReturn(None) /\ inflight' = <<>>
           ELSE res' = next /\ inflight' = NextFetch(next)
    /\ UNCHANGED <<world, op, pc, local, result, enum, edit, move>>

\* getAllVariablesInCategory line 258: gameData fetched; line 263 calls getCategoryId
Resolve258 ==
    /\ res.pc = "L258"
    /\ \E status \in Statuses :
        LET fetched == getGameData(status) IN
        /\ log' = Completed(status, None)
        /\ IF fetched = None
           THEN res' = ResReturn(None) /\ inflight' = <<>>
           ELSE /\ res' = [res EXCEPT !.pc = "L263", !.gameData = fetched]
                /\ inflight' = <<getGameDataByUrl(res.category.gameUrl)>>
    /\ UNCHANGED <<world, op, pc, local, result, enum, edit, move>>

\* line 268: the variables of the category
VariablesOfAnyCategory(variables, categoryId) == variables
VariablesInCategory(variables, categoryId) ==
    LET InCategory(variable) == variable.categoryId = categoryId
    IN  SelectSeq(variables, InCategory)
\* line 280: those flagged isSubcategory
SubcategoryVariables(variables) ==
    LET IsSubcategory(variable) == variable.isSubcategory
    IN  SelectSeq(variables, IsSubcategory)

\* getAllVariablesInCategory line 263: getCategoryId answered; the variables are
\* filtered (268, 280) and getAllSubcategoriesInCategory fetches again (283)
Resolve263 ==
    /\ res.pc = "L263"
    /\ \E status \in Statuses :
        LET categoryId == getCategoryId(getGameData(status), res.category.categoryName) IN
        /\ log' = Completed(status, None)
        /\ IF categoryId = None
           THEN res' = ResReturn(None) /\ inflight' = <<>>
           ELSE /\ res' = [res EXCEPT
                    !.pc = "L283",
                    !.subcategoryVariables = SubcategoryVariables(
                        VariablesInCategory(res.gameData[1].variables, categoryId[1]))]
                /\ inflight' = <<getGameDataByUrl(res.category.gameUrl)>>
    /\ UNCHANGED <<world, op, pc, local, result, enum, edit, move>>

\* line 284: the values of the subcategory variables
SubcategoryValues(values, subcategoryVariables) ==
    LET OfSubcategory(value) ==
            \E k \in DOMAIN subcategoryVariables : subcategoryVariables[k].id = value.variableId
    IN  SelectSeq(values, OfSubcategory)
\* lines 294-303: the first value of that name, as a pair
FindSubcategory(subcategories, subcategoryName) ==
    LET hits == {k \in DOMAIN subcategories : subcategories[k].name = subcategoryName}
    IN  IF hits = {} THEN None
        ELSE Some([variableId |-> subcategories[Min(hits)].variableId,
                   valueId |-> subcategories[Min(hits)].id])

\* lines 320-323: null for a name that did not resolve, else the pair is pushed
AfterSubcategorySkip(frame, subcategoryInfo) ==
    IF subcategoryInfo = None
    THEN NextName([frame EXCEPT !.i = frame.i + 1])
    ELSE NextName([frame EXCEPT
            !.i = frame.i + 1,
            !.subcategoryValues = Append(frame.subcategoryValues, subcategoryInfo[1])])
AfterSubcategory(frame, subcategoryInfo) ==
    IF subcategoryInfo = None
    THEN ResReturn(None)
    ELSE NextName([frame EXCEPT
            !.i = frame.i + 1,
            !.subcategoryValues = Append(frame.subcategoryValues, subcategoryInfo[1])])

\* getAllSubcategoriesInCategory line 283: the third fetch answered; its payload is
\* cast to GameData without a null check, so .values of null throws
Resolve283 ==
    /\ res.pc = "L283"
    /\ \E status \in Statuses :
        LET fetched == getGameData(status) IN
        /\ log' = Completed(status, None)
        /\ IF fetched = None
           THEN Throw /\ UNCHANGED <<world, op, local>>
           ELSE LET next == AfterSubcategory(res,
                        FindSubcategory(
                            SubcategoryValues(fetched[1].values, res.subcategoryVariables),
                            res.category.subcategoryNames[res.i]))
                IN  /\ res' = next
                    /\ inflight' = NextFetch(next)
                    /\ UNCHANGED <<world, op, pc, local, result, enum, edit, move>>

StartGetSubcategoryIdFromNames ==
    /\ pc = "idle"
    /\ \E category \in SpeedrunCategory({GameUrl, "zz"}, CategoryNames, ValueNames) :
        /\ op' = [name |-> "getSubcategoryIdFromNames", category |-> category]
        /\ res' = CallResolver(category)
        /\ inflight' = <<getGameDataByUrl(category.gameUrl)>>
    /\ pc' = "getSubcategoryIdFromNames"
    /\ UNCHANGED <<world, local, result, enum, edit, move, log>>

GetSubcategoryIdFromNamesDone ==
    /\ pc = "getSubcategoryIdFromNames"
    /\ res.pc = "ret"
    /\ result' = Returned(res.ret)
    /\ pc' = "done"
    /\ res' = ResIdle
    /\ UNCHANGED <<world, op, local, enum, edit, move, inflight, log>>

\* ------------------------------------------------- getAllRunsInCategory
\* ObsoleteFilterStatus.Shown
Shown == 1
\* the server's leaderboard: count runs, per of them on a page
Pages == (leaderboard.count + leaderboard.per - 1) \div leaderboard.per
RunList(page) ==
    LET first == (page - 1) * leaderboard.per
        n == IF leaderboard.count - first > leaderboard.per THEN leaderboard.per
             ELSE IF leaderboard.count - first > 0 THEN leaderboard.count - first ELSE 0
    IN  [k \in 1..n |-> [id |-> first + k]]
\* getGameLeaderboard: its request, and the payload on status 200, null otherwise
getGameLeaderboard(gameId, categoryId, optional) ==
    postRequest("GetGameLeaderboard2",
        [params |-> [gameId |-> gameId, categoryId |-> categoryId,
                     values |-> optional.values, obsolete |-> optional.obsolete],
         page |-> optional.page], FALSE)
GameLeaderboardResponse(status) ==
    IF status = 200
    THEN Some([runList |-> RunList(inflight[1].body.page),
               pagination |-> [count |-> leaderboard.count, page |-> inflight[1].body.page,
                               pages |-> Pages, per |-> leaderboard.per]])
    ELSE None

EnumReturn(v) == [EnumIdle EXCEPT !.pc = "ret", !.ret = v]
CallEnum(category) == [EnumIdle EXCEPT !.pc = "L338", !.category = category, !.i = 1]

\* lines 375-382 after page frame.i came back: its runs are appended, the first
\* page sets totalPages, and the loop of line 377 goes on while i < totalPages
AfterPage(frame, gameLeaderboard) ==
    LET runs == frame.runs \o gameLeaderboard.runList
        totalPages == IF frame.i = 1 THEN gameLeaderboard.pagination.pages ELSE frame.totalPages
        i == frame.i + 1
    IN  IF i < totalPages
        THEN [frame EXCEPT !.pc = "L338", !.i = i, !.runs = runs, !.totalPages = totalPages]
        ELSE EnumReturn(Some([k \in DOMAIN runs |-> runs[k].id]))

\* getLeaderboardForSubcategory returned gameLeaderboard for page enum.i: a null
\* first page returns null (372), a null later page throws on .runList (379)
Page(gameLeaderboard) ==
    IF gameLeaderboard = None
    THEN IF enum.i = 1
         THEN /\ enum' = EnumReturn(None) /\ res' = ResIdle /\ inflight' = <<>>
              /\ UNCHANGED <<pc, result, edit, move>>
         ELSE Throw
    ELSE LET next == AfterPage(enum, gameLeaderboard[1]) IN
         /\ enum' = next
         /\ IF next.pc = "L338"
            THEN /\ res' = CallResolver(enum.category)
                 /\ inflight' = <<getGameDataByUrl(enum.category.gameUrl)>>
            ELSE res' = ResIdle /\ inflight' = <<>>
         /\ UNCHANGED <<pc, result, edit, move>>

\* line 338: getSubcategoryIdFromNames returned; null is returned as a null
\* leaderboard, else the page is asked for (343)
Enum338 ==
    /\ enum.pc = "L338"
    /\ res.pc = "ret"
    /\ IF res.ret = None
       THEN Page(None)
       ELSE /\ enum' = [enum EXCEPT !.pc = "L343"]
            /\ res' = ResIdle
            /\ inflight' = <<getGameLeaderboard(res.ret[1].gameId, res.ret[1].categoryId,
                   [values |-> [k \in DOMAIN res.ret[1].subcategories |->
                                   [variableId |-> res.ret[1].subcategories[k].variableId,
                                    valueIds |-> <<res.ret[1].subcategories[k].valueId>>]],
                    obsolete |-> Shown, page |-> enum.i])>>
            /\ UNCHANGED <<pc, result, edit, move>>
    /\ UNCHANGED <<world, op, local, log>>

\* line 343: the page answered
Enum343 ==
    /\ enum.pc = "L343"
    /\ \E status \in Statuses :
        /\ log' = Completed(status, GameLeaderboardResponse(status))
        /\ Page(GameLeaderboardResponse(status))
    /\ UNCHANGED <<world, op, local>>

StartGetAllRunsInCategory ==
    /\ pc = "idle"
    /\ \E category \in SpeedrunCategory({GameUrl}, CategoryNames, {"N", "H"}) :
        /\ op' = [name |-> "getAllRunsInCategory", category |-> category]
        /\ enum' = CallEnum(category)
        /\ res' = CallResolver(category)
        /\ inflight' = <<getGameDataByUrl(category.gameUrl)>>
    /\ pc' = "getAllRunsInCategory"
    /\ UNCHANGED <<world, local, result, edit, move, log>>

GetAllRunsInCategoryDone ==
    /\ pc = "getAllRunsInCategory"
    /\ enum.pc = "ret"
    /\ result' = Returned(enum.ret)
    /\ pc' = "done"
    /\ enum' = EnumIdle
    /\ UNCHANGED <<world, op, local, res, edit, move, inflight, log>>

\* ------------------------------------------------------------- editRun
\* getRunSettings: its request, and the payload on status 200, null otherwise
getRunSettings(runId) == postRequest("GetRunSettings", [runId |-> runId], FALSE)
RunSettingsResponse(status, stored) == IF status = 200 THEN Some(stored) ELSE None
\* what the server may hold for the run asked for: its settings, the selection
\* list being any list (or null) until a response has shown it
Observable ==
    LET runId == inflight[1].body.runId
    IN  IF runId \notin DOMAIN settings THEN {RunSettings(runId, Null)}
        ELSE IF settings[runId].values # Unobserved THEN {settings[runId]}
        ELSE {[settings[runId] EXCEPT !.values = values] :
                values \in {Null} \cup {Array(items) : items \in SeqsUpTo(Selection, MaxVals)}}
Observed(status, stored) ==
    IF status = 200 THEN [settings EXCEPT ![stored.runId] = stored] ELSE settings
\* putRunSettings: its request (token attached), and its boolean result
putRunSettings(runSettings, autoverify) ==
    postRequest("PutRunSettings", [settings |-> runSettings, autoverify |-> autoverify], TRUE)
PutRunSettingsTrue(status) == "true"
PutRunSettingsResult(status) == IF status = 200 THEN "true" ELSE "false"
\* the server stores the settings it answered 200 to
Stored(status) ==
    IF status = 200
    THEN [settings EXCEPT ![inflight[1].body.settings.runId] = inflight[1].body.settings]
    ELSE settings

CallEdit(runId, params) == [EditIdle EXCEPT !.pc = "L246", !.runId = runId, !.params = params]
EditReturn(v) == [EditIdle EXCEPT !.pc = "ret", !.ret = v]

\* line 246: the settings fetched; merged with params (251) and pushed (253)
Edit246 ==
    /\ edit.pc = "L246"
    /\ \E status \in Statuses, stored \in Observable :
        LET originalRun == RunSettingsResponse(status, stored) IN
        /\ log' = Completed(status, originalRun)
        /\ settings' = Observed(status, stored)
        /\ IF originalRun = None
           THEN edit' = EditReturn("false") /\ inflight' = <<>>
           ELSE /\ edit' = [edit EXCEPT !.pc = "L253"]
                /\ inflight' = <<putRunSettings(Assign(originalRun[1], edit.params), TRUE)>>
    /\ UNCHANGED <<gameData, leaderboard, op, pc, local, result, res, enum, move>>

\* line 253: the push answered
Edit253 ==
    /\ edit.pc = "L253"
    /\ \E status \in Statuses :
        /\ log' = Completed(status, None)
        /\ settings' = Stored(status)
        /\ edit' = EditReturn(PutRunSettingsResult(status))
    /\ inflight' = <<>>
    /\ UNCHANGED <<gameData, leaderboard, op, pc, local, result, res, enum, move>>

StartEditRun ==
    /\ pc = "idle"
    /\ \E runId \in 1..(Len(settings) + 1), params \in EditParams :
        /\ op' = [name |-> "editRun", runId |-> runId, params |-> params]
        /\ edit' = CallEdit(runId, params)
        /\ inflight' = <<getRunSettings(runId)>>
    /\ pc' = "editRun"
    /\ UNCHANGED <<world, local, result, res, enum, move, log>>

EditRunDone ==
    /\ pc = "editRun"
    /\ edit.pc = "ret"
    /\ result' = Returned(edit.ret)
    /\ pc' = "done"
    /\ edit' = EditIdle
    /\ UNCHANGED <<world, op, local, res, enum, move, inflight, log>>

\* ------------------------------------------------ editAllRunsInCategory
StartEditAllRunsInCategory ==
    /\ pc = "idle"
    /\ \E category \in SpeedrunCategory({GameUrl}, CategoryNames, {"N", "H"}),
          editParams \in {params \in EditParams : DOMAIN params \subseteq {"comment"}} :
        /\ op' = [name |-> "editAllRunsInCategory", category |-> category,
                  editParams |-> editParams]
        /\ enum' = CallEnum(category)
        /\ res' = CallResolver(category)
        /\ inflight' = <<getGameDataByUrl(category.gameUrl)>>
    /\ pc' = "L392"
    /\ UNCHANGED <<world, local, result, edit, move, log>>

\* lines 397-400 with the editRun calls of all the runs left started at once
EditNextAtOnce(k) ==
    IF k <= Len(local'.runs[1])
    THEN /\ edit' = CallEdit(local'.runs[1][k], op.editParams)
         /\ inflight' = [j \in 1..(Len(local'.runs[1]) - k + 1) |->
                            getRunSettings(local'.runs[1][k + j - 1])]
         /\ pc' = "L398"
         /\ UNCHANGED result
    ELSE /\ pc' = "done"
         /\ result' = Returned("undefined")
         /\ edit' = EditIdle
         /\ UNCHANGED inflight
\* lines 397-400: editRun for the k-th run, or the end of the function, which
\* has no return statement
EditNextStopOnFailure(k) ==
    IF k <= Len(local'.runs[1]) /\ ~(edit.pc = "ret" /\ edit.ret = "false")
    THEN /\ edit' = CallEdit(local'.runs[1][k], op.editParams)
         /\ inflight' = <<getRunSettings(local'.runs[1][k])>>
         /\ pc' = "L398"
         /\ UNCHANGED result
    ELSE /\ pc' = "done"
         /\ result' = Returned("undefined")
         /\ edit' = EditIdle
         /\ UNCHANGED inflight
EditNext(k) ==
    IF k <= Len(local'.runs[1])
    THEN /\ edit' = CallEdit(local'.runs[1][k], op.editParams)
         /\ inflight' = <<getRunSettings(local'.runs[1][k])>>
         /\ pc' = "L398"
         /\ UNCHANGED result
    ELSE /\ pc' = "done"
         /\ result' = Returned("undefined")
         /\ edit' = EditIdle
         /\ UNCHANGED inflight

\* line 392: the enumeration returned
EditAllRunsInCategory392 ==
    /\ pc = "L392"
    /\ enum.pc = "ret"
    /\ enum' = EnumIdle
    /\ IF enum.ret = None
       THEN /\ pc' = "done" /\ result' = Returned("false")
            /\ UNCHANGED <<local, edit, inflight>>
       ELSE /\ local' = [local EXCEPT !.runs = enum.ret, !.k = 1]
            /\ EditNext(1)
    /\ UNCHANGED <<world, op, res, move, log>>

\* line 398: editRun returned, its result dropped
EditAllRunsInCategory398 ==
    /\ pc = "L398"
    /\ edit.pc = "ret"
    /\ local' = [local EXCEPT !.k = local.k + 1]
    /\ EditNext(local.k + 1)
    /\ UNCHANGED <<world, op, res, enum, move, log>>

\* ---------------------------------------------- moveRunToCategoryWithId
\* lines 415-418: the old category's values keyed by variable, the last one winning
subcategoryIds(oldCategory) ==
    LET subs == oldCategory.subcategories
        variableIds == {subs[k].variableId : k \in DOMAIN subs}
    IN  [v \in variableIds |-> subs[Max({k \in DOMAIN subs : subs[k].variableId = v})].valueId]
\* lines 422-425: the new category's pairs
NewPairs(newCategory) ==
    [k \in DOMAIN newCategory.subcategories |->
        [variableId |-> newCategory.subcategories[k].variableId,
         valueId |-> newCategory.subcategories[k].valueId]]
\* lines 420-425: undefined for a run without a selection list (?.), else the
\* selections that are not the old category's, followed by the new category's
NewValuesAppendOnly(values, oldCategory, newCategory) ==
    IF values.kind # "array" THEN Undefined
    ELSE Array(values.items \o NewPairs(newCategory))
NewValues(values, oldCategory, newCategory) ==
    LET ids == subcategoryIds(oldCategory)
        Kept(value) == ~(value.variableId \in DOMAIN ids /\ value.valueId = ids[value.variableId])
    IN  IF values.kind # "array" THEN Undefined
        ELSE Array(SelectSeq(values.items, Kept) \o NewPairs(newCategory))

CallMove(runId, oldCategory, newCategory) ==
    [MoveIdle EXCEPT !.pc = "L410", !.runId = runId, !.oldCategory = Some(oldCategory),
                     !.newCategory = Some(newCategory)]
MoveReturn(v) == [MoveIdle EXCEPT !.pc = "ret", !.ret = v]

\* line 410: the settings fetched; newValues computed, editRun called (427)
Move410 ==
    /\ move.pc = "L410"
    /\ \E status \in Statuses, stored \in Observable :
        LET oldSettings == RunSettingsResponse(status, stored) IN
        /\ log' = Completed(status, oldSettings)
        /\ settings' = Observed(status, stored)
        /\ IF oldSettings = None
           THEN move' = MoveReturn("false") /\ inflight' = <<>> /\ edit' = edit
           ELSE /\ move' = [move EXCEPT !.pc = "L427", !.oldSettings = oldSettings]
                /\ edit' = CallEdit(move.runId,
                      [categoryId |-> move.newCategory[1].categoryId,
                       values |-> NewValues(oldSettings[1].values, move.oldCategory[1],
                                            move.newCategory[1])])
                /\ inflight' = <<getRunSettings(move.runId)>>
    /\ UNCHANGED <<gameData, leaderboard, op, pc, local, result, res, enum>>

\* lines 427-435: editRun returned
Move427 ==
    /\ move.pc = "L427"
    /\ edit.pc = "ret"
    /\ move' = MoveReturn(IF edit.ret = "true" THEN "true" ELSE "false")
    /\ edit' = EditIdle
    /\ UNCHANGED <<world, op, pc, local, result, res, enum, inflight, log>>

\* ---------------------------------------------------- moveRunToCategory
StartMoveRunToCategory ==
    /\ pc = "idle"
    /\ \E runId \in 1..Len(settings),
          oldCategory \in SpeedrunCategory({GameUrl}, {"Any"}, {"N", "P", "E"}),
          newCategory \in SpeedrunCategory({GameUrl}, CategoryNames, {"N", "P", "E"}) :
        /\ op' = [name |-> "moveRunToCategory", runId |-> runId,
                  oldCategory |-> oldCategory, newCategory |-> newCategory]
        /\ res' = CallResolver(oldCategory)
        /\ inflight' = <<getGameDataByUrl(oldCategory.gameUrl)>>
    /\ pc' = "L448"
    /\ UNCHANGED <<world, local, result, enum, edit, move, log>>

\* line 448: the old category resolved; 452 resolves the new one
MoveRunToCategory448 ==
    /\ pc = "L448"
    /\ res.pc = "ret"
    /\ IF res.ret = None
       THEN /\ pc' = "done" /\ result' = Returned("false") /\ res' = ResIdle
            /\ UNCHANGED <<local, inflight>>
       ELSE /\ local' = [local EXCEPT !.oldCategoryId = res.ret]
            /\ res' = CallResolver(op.newCategory)
            /\ inflight' = <<getGameDataByUrl(op.newCategory.gameUrl)>>
            /\ pc' = "L452"
            /\ UNCHANGED result
    /\ UNCHANGED <<world, op, enum, edit, move, log>>

\* line 452: the new category resolved; 456 calls moveRunToCategoryWithId
MoveRunToCategory452 ==
    /\ pc = "L452"
    /\ res.pc = "ret"
    /\ res' = ResIdle
    /\ IF res.ret = None
       THEN /\ pc' = "done" /\ result' = Returned("false")
            /\ UNCHANGED <<local, inflight, move>>
       ELSE /\ local' = [local EXCEPT !.newCategoryId = res.ret]
            /\ move' = CallMove(op.runId, local.oldCategoryId[1], res.ret[1])
            /\ inflight' = <<getRunSettings(op.runId)>>
            /\ pc' = "L456"
            /\ UNCHANGED result
    /\ UNCHANGED <<world, op, enum, edit, log>>

\* line 456: moveRunToCategoryWithId returned
MoveRunToCategoryDone ==
    /\ pc = "L456"
    /\ move.pc = "ret"
    /\ result' = Returned(move.ret)
    /\ pc' = "done"
    /\ move' = MoveIdle
    /\ UNCHANGED <<world, op, local, res, enum, edit, inflight, log>>

\* ------------------------------------------------ moveAllRunsInCategory
StartMoveAllRunsInCategory ==
    /\ pc = "idle"
    /\ \E category \in SpeedrunCategory({GameUrl}, {"Any"}, {"N", "H"}),
          newCategory \in SpeedrunCategory({GameUrl}, CategoryNames, {"N", "H"}) :
        /\ op' = [name |-> "moveAllRunsInCategory", category |-> category,
                  newCategory |-> newCategory]
        /\ enum' = CallEnum(category)
        /\ res' = CallResolver(category)
        /\ inflight' = <<getGameDataByUrl(category.gameUrl)>>
    /\ pc' = "L468"
    /\ UNCHANGED <<world, local, result, edit, move, log>>

\* line 468: the enumeration returned; 473 resolves the old category
MoveAllRunsInCategory468 ==
    /\ pc = "L468"
    /\ enum.pc = "ret"
    /\ enum' = EnumIdle
    /\ IF enum.ret = None
       THEN /\ pc' = "done" /\ result' = Returned("false")
            /\ UNCHANGED <<local, res, inflight>>
       ELSE /\ local' = [local EXCEPT !.runs = enum.ret]
            /\ res' = CallResolver(op.category)
            /\ inflight' = <<getGameDataByUrl(op.category.gameUrl)>>
            /\ pc' = "L473"
            /\ UNCHANGED result
    /\ UNCHANGED <<world, op, edit, move, log>>

\* line 473: the old category resolved; 478 resolves the new one
MoveAllRunsInCategory473 ==
    /\ pc = "L473"
    /\ res.pc = "ret"
    /\ IF res.ret = None
       THEN /\ pc' = "done" /\ result' = Returned("false") /\ res' = ResIdle
            /\ UNCHANGED <<local, inflight>>
       ELSE /\ local' = [local EXCEPT !.oldCategoryId = res.ret]
            /\ res' = CallResolver(op.newCategory)
            /\ inflight' = <<getGameDataByUrl(op.newCategory.gameUrl)>>
            /\ pc' = "L478"
            /\ UNCHANGED result
    /\ UNCHANGED <<world, op, enum, edit, move, log>>

\* lines 483-487: moveRunToCategoryWithId for the k-th run, or return true
MoveNextNoReturn(k) ==
    IF k <= Len(local'.runs[1])
    THEN /\ move' = CallMove(local'.runs[1][k], local'.oldCategoryId[1], local'.newCategoryId[1])
         /\ inflight' = <<getRunSettings(local'.runs[1][k])>>
         /\ pc' = "L484"
         /\ UNCHANGED result
    ELSE /\ pc' = "done"
         /\ result' = Returned("undefined")
         /\ move' = MoveIdle
         /\ UNCHANGED inflight
MoveNext(k) ==
    IF k <= Len(local'.runs[1])
    THEN /\ move' = CallMove(local'.runs[1][k], local'.oldCategoryId[1], local'.newCategoryId[1])
         /\ inflight' = <<getRunSettings(local'.runs[1][k])>>
         /\ pc' = "L484"
         /\ UNCHANGED result
    ELSE /\ pc' = "done"
         /\ result' = Returned("true")
         /\ move' = MoveIdle
         /\ UNCHANGED inflight

\* line 478: the new category resolved; the loop of 483 starts
MoveAllRunsInCategory478 ==
    /\ pc = "L478"
    /\ res.pc = "ret"
    /\ res' = ResIdle
    /\ IF res.ret = None
       THEN /\ pc' = "done" /\ result' = Returned("false")
            /\ UNCHANGED <<local, inflight, move>>
       ELSE /\ local' = [local EXCEPT !.newCategoryId = res.ret, !.k = 1]
            /\ MoveNext(1)
    /\ UNCHANGED <<world, op, enum, edit, log>>

\* line 484: moveRunToCategoryWithId returned, its result dropped
MoveAllRunsInCategory484 ==
    /\ pc = "L484"
    /\ move.pc = "ret"
    /\ local' = [local EXCEPT !.k = local.k + 1]
    /\ MoveNext(local.k + 1)
    /\ UNCHANGED <<world, op, res, enum, edit, log>>

\* ------------------------------------------------------- another client
\* another client's putRunSettings is accepted by the server while a
\* moveRunToCategoryWithId of this client is between two of its remote calls;
\* it happens once per run, and leaves its comment
OtherClientPutRunSettings ==
    /\ move.pc \in {"L410", "L427"}
    /\ \E runId \in DOMAIN settings,
          values \in {Null} \cup {Array(items) : items \in SeqsUpTo(Selection, 1)} :
        /\ settings[runId].comment = "old"
        /\ settings' = [settings EXCEPT ![runId].values = values, ![runId].comment = "theirs"]
    /\ UNCHANGED <<gameData, leaderboard, op, pc, local, result, res, enum, edit, move, inflight, log>>

\* ------------------------------------------------------- specifications
Idle ==
    /\ op = [name |-> "none"]
    /\ pc = "idle"
    /\ local = NoLocal
    /\ result = NoResult
    /\ res = ResIdle
    /\ enum = EnumIdle
    /\ edit = EditIdle
    /\ move = MoveIdle
    /\ inflight = <<>>
    /\ log = <<>>

\* the resolver against every category list of the snapshot
InitResolve ==
    /\ \E categories \in SeqsUpTo(Category, MaxCats) : gameData = GameData(categories)
    /\ leaderboard = [count |-> 0, per |-> 1]
    /\ settings = <<>>
    /\ Idle
NextResolve ==
    \/ StartGetCategoryId
    \/ GetCategoryIdDone
    \/ StartGetSubcategoryIdFromNames
    \/ Resolve307
    \/ Resolve312
    \/ Resolve258
    \/ Resolve263
    \/ Resolve283
    \/ GetSubcategoryIdFromNamesDone
SpecResolve == InitResolve /\ [][NextResolve]_vars

\* editRun and moveRunToCategory on one run, whatever selections the server
\* turns out to hold for it
InitEdit ==
    /\ gameData = GameData(FixtureCategories)
    /\ leaderboard = [count |-> 1, per |-> 1]
    /\ settings = <<RunSettings(1, Unobserved)>>
    /\ Idle
NextEdit ==
    \/ StartEditRun
    \/ EditRunDone
    \/ StartMoveRunToCategory
    \/ MoveRunToCategory448
    \/ MoveRunToCategory452
    \/ MoveRunToCategoryDone
    \/ Move410
    \/ Move427
    \/ Edit246
    \/ Edit253
    \/ Resolve307
    \/ Resolve312
    \/ Resolve258
    \/ Resolve263
    \/ Resolve283
SpecEdit == InitEdit /\ [][NextEdit]_vars

\* the enumeration and the bulk edit against leaderboards of every size
InitEnumerate ==
    /\ gameData = GameData(FixtureCategories)
    /\ \E count \in 0..MaxRuns, per \in 1..MaxPer :
          /\ leaderboard = [count |-> count, per |-> per]
          /\ settings = [runId \in 1..count |-> RunSettings(runId, Array(<<>>))]
    /\ Idle
NextEnumerate ==
    \/ StartGetAllRunsInCategory
    \/ GetAllRunsInCategoryDone
    \/ StartEditAllRunsInCategory
    \/ EditAllRunsInCategory392
    \/ EditAllRunsInCategory398
    \/ Enum338
    \/ Enum343
    \/ Edit246
    \/ Edit253
    \/ Resolve307
    \/ Resolve312
    \/ Resolve258
    \/ Resolve263
    \/ Resolve283
SpecEnumerate == InitEnumerate /\ [][NextEnumerate]_vars

\* the bulk edit and the bulk move against leaderboards of every size
NextBulk ==
    \/ StartEditAllRunsInCategory
    \/ EditAllRunsInCategory392
    \/ EditAllRunsInCategory398
    \/ StartMoveAllRunsInCategory
    \/ MoveAllRunsInCategory468
    \/ MoveAllRunsInCategory473
    \/ MoveAllRunsInCategory478
    \/ MoveAllRunsInCategory484
    \/ Move410
    \/ Move427
    \/ Enum338
    \/ Enum343
    \/ Edit246
    \/ Edit253
    \/ Resolve307
    \/ Resolve312
    \/ Resolve258
    \/ Resolve263
    \/ Resolve283
SpecBulk == InitEnumerate /\ [][NextBulk]_vars

\* moveRunToCategory on one run that another client edits meanwhile
InitConcurrent ==
    /\ gameData = GameData(FixtureCategories)
    /\ leaderboard = [count |-> 1, per |-> 1]
    /\ settings = <<RunSettings(1, Array(<<[variableId |-> "v1", valueId |-> "a"]>>))>>
    /\ Idle
NextConcurrent ==
    \/ StartMoveRunToCategory
    \/ MoveRunToCategory448
    \/ MoveRunToCategory452
    \/ MoveRunToCategoryDone
    \/ Move410
    \/ Move427
    \/ Edit246
    \/ Edit253
    \/ Resolve307
    \/ Resolve312
    \/ Resolve258
    \/ Resolve263
    \/ Resolve283
    \/ OtherClientPutRunSettings
SpecConcurrent == InitConcurrent /\ [][NextConcurrent]_vars

\* every public method of the client, against a leaderboard of one run a page
Init ==
    /\ gameData = GameData(FixtureCategories)
    /\ leaderboard = [count |-> MaxRuns, per |-> 1]
    /\ settings = [runId \in 1..MaxRuns |-> RunSettings(runId, Array(<<>>))]
    /\ Idle
Next ==
    \/ StartGetCategoryId
    \/ GetCategoryIdDone
    \/ StartGetSubcategoryIdFromNames
    \/ GetSubcategoryIdFromNamesDone
    \/ StartGetAllRunsInCategory
    \/ GetAllRunsInCategoryDone
    \/ StartEditRun
    \/ EditRunDone
    \/ StartMoveRunToCategory
    \/ MoveRunToCategory448
    \/ MoveRunToCategory452
    \/ MoveRunToCategoryDone
    \/ StartEditAllRunsInCategory
    \/ EditAllRunsInCategory392
    \/ EditAllRunsInCategory398
    \/ StartMoveAllRunsInCategory
    \/ MoveAllRunsInCategory468
    \/ MoveAllRunsInCategory473
    \/ MoveAllRunsInCategory478
    \/ MoveAllRunsInCategory484
    \/ Move410
    \/ Move427
    \/ Enum338
    \/ Enum343
    \/ Edit246
    \/ Edit253
    \/ Resolve307
    \/ Resolve312
    \/ Resolve258
    \/ Resolve263
    \/ Resolve283
Spec == Init /\ [][Next]_vars

\* ------------------------------------------------------------- claims
\* the value is one of a subcategory variable of category categoryId
IsSubcategoryOf(value, categoryId) ==
    \E k \in DOMAIN gameData.variables :
        /\ gameData.variables[k].id = value.variableId
        /\ gameData.variables[k].categoryId = categoryId
        /\ gameData.variables[k].isSubcategory
\* pair is what subcategoryName resolves to within category categoryId
IsResolution(pair, subcategoryName, categoryId) ==
    \E k \in DOMAIN gameData.values :
        /\ gameData.values[k].name = subcategoryName
        /\ IsSubcategoryOf(gameData.values[k], categoryId)
        /\ pair = [variableId |-> gameData.values[k].variableId, valueId |-> gameData.values[k].id]
        /\ \A j \in 1..(k - 1) :
              ~(gameData.values[j].name = subcategoryName /\ IsSubcategoryOf(gameData.values[j], categoryId))
Resolvable(subcategoryName, categoryId) ==
    \E k \in DOMAIN gameData.values :
        gameData.values[k].name = subcategoryName /\ IsSubcategoryOf(gameData.values[k], categoryId)
\* categoryId is the id of the first category named categoryName
IsFirstCategory(categoryId, categoryName) ==
    \E k \in DOMAIN gameData.categories :
        /\ gameData.categories[k].name = categoryName
        /\ gameData.categories[k].id = categoryId
        /\ \A j \in 1..(k - 1) : gameData.categories[j].name # categoryName
HasCategory(categoryName) ==
    \E k \in DOMAIN gameData.categories : gameData.categories[k].name = categoryName
AllFetched == \A k \in DOMAIN log : log[k].status = 200

\* C8: getSubcategoryIdFromNames returns null when the game, the category name or
\* any one subcategory name does not resolve; a non-null result has one pair per
\* name, the i-th pair being the resolution of the i-th name; and when everything
\* resolves and every fetch succeeds the result is not null.
C8_AllOrNothing ==
    (pc = "done" /\ op.name = "getSubcategoryIdFromNames" /\ result.kind = "returned") =>
        LET names == op.category.subcategoryNames
            categoryName == op.category.categoryName
            r == result.value
            Resolves(categoryId) ==
                /\ op.category.gameUrl = gameData.game.url
                /\ IsFirstCategory(categoryId, categoryName)
                /\ \A i \in DOMAIN names : Resolvable(names[i], categoryId)
        IN  /\ (~(\E categoryId \in CategoryIds : Resolves(categoryId))) => r = None
            /\ r # None =>
                  /\ r[1].gameId = gameData.game.id
                  /\ IsFirstCategory(r[1].categoryId, categoryName)
                  /\ Len(r[1].subcategories) = Len(names)
                  /\ \A i \in DOMAIN names :
                        IsResolution(r[1].subcategories[i], names[i], r[1].categoryId)
            /\ ((\E categoryId \in CategoryIds : Resolves(categoryId)) /\ AllFetched) => r # None
\* a second name that does not resolve after a first that did: null
C8_Witness ==
    /\ pc = "done" /\ op.name = "getSubcategoryIdFromNames" /\ result = Returned(None)
    /\ AllFetched
    /\ Len(op.category.subcategoryNames) = 2
    /\ \E categoryId \in CategoryIds :
          /\ IsFirstCategory(categoryId, op.category.categoryName)
          /\ Resolvable(op.category.subcategoryNames[1], categoryId)
          /\ ~Resolvable(op.category.subcategoryNames[2], categoryId)

\* C9: getCategoryId returns the id of the first category, in snapshot order, whose
\* name is categoryName, and null when no category has that name or the fetch failed.
C9_FirstMatch ==
    (pc = "done" /\ op.name = "getCategoryId") =>
        /\ result.kind = "returned"
        /\ IF AllFetched /\ HasCategory(op.categoryName)
           THEN /\ result.value # None
                /\ IsFirstCategory(result.value[1], op.categoryName)
           ELSE result.value = None
\* two categories of the same name and different ids: the first one's id
C9_Witness ==
    /\ pc = "done" /\ op.name = "getCategoryId"
    /\ Len(gameData.categories) = 2
    /\ gameData.categories[1].name = op.categoryName
    /\ gameData.categories[2].name = op.categoryName
    /\ gameData.categories[1].id # gameData.categories[2].id
    /\ result = Returned(Some(gameData.categories[1].id))

\* the settings of the PutRunSettings call in flight
Pushed == inflight[1].body.settings
PutInFlight(name) == edit.pc = "L253" /\ op.name = name
AtMostOnePerVariable(list) ==
    \A i, j \in DOMAIN list :
        list[i].variableId = list[j].variableId => list[i].valueId = list[j].valueId
Pairs(list) == {list[k] : k \in DOMAIN list}
ValuesOf(list, variableId) ==
    {list[k].valueId : k \in {j \in DOMAIN list : list[j].variableId = variableId}}

\* C3 (as claimed): a move of a run with at most one value per variable, between
\* category references with at most one value per variable, pushes a selection
\* list with at most one valueId per variableId.
C3_OneValuePerVariable ==
    (/\ PutInFlight("moveRunToCategory")
     /\ AtMostOnePerVariable(move.oldSettings[1].values.items)
     /\ AtMostOnePerVariable(move.oldCategory[1].subcategories)
     /\ AtMostOnePerVariable(move.newCategory[1].subcategories))
        => AtMostOnePerVariable(Pushed.values.items)

\* the run has a selection list and, for every variable the old category
\* declares, carries exactly the one value the old category declares for it
Agree(values, oldCategory) ==
    /\ values.kind = "array"
    /\ \A k \in DOMAIN oldCategory.subcategories :
          LET variableId == oldCategory.subcategories[k].variableId IN
          /\ ValuesOf(values.items, variableId) = ValuesOf(oldCategory.subcategories, variableId)
          /\ Cardinality(ValuesOf(oldCategory.subcategories, variableId)) = 1
\* C4: when the fetched selections agree with the old category on every variable
\* it declares, the pushed selection set is the fetched one minus the old
\* category's pairs, plus the new category's pairs.
C4_StripAndAppend ==
    (PutInFlight("moveRunToCategory") /\ Agree(move.oldSettings[1].values, move.oldCategory[1])) =>
        /\ Pushed.values.kind = "array"
        /\ Pairs(Pushed.values.items) =
              (Pairs(move.oldSettings[1].values.items) \ Pairs(move.oldCategory[1].subcategories))
                  \cup Pairs(move.newCategory[1].subcategories)
\* {v1: a, v4: e} moved from v1 -> a to v1 -> b is pushed as {v1: b, v4: e}
C4_Witness ==
    /\ PutInFlight("moveRunToCategory")
    /\ move.oldSettings[1].values =
          Array(<<[variableId |-> "v1", valueId |-> "a"], [variableId |-> "v4", valueId |-> "e"]>>)
    /\ move.oldCategory[1].subcategories = <<[variableId |-> "v1", valueId |-> "a"]>>
    /\ move.newCategory[1].subcategories = <<[variableId |-> "v1", valueId |-> "b"]>>
    /\ Pairs(Pushed.values.items) =
          {[variableId |-> "v1", valueId |-> "b"], [variableId |-> "v4", valueId |-> "e"]}

\* C5 (as claimed): whatever selection list was fetched, null included, the
\* settings a move pushes carry the new category's id and a selection list that
\* contains every pair of the new category.
C5_NewCategoryPushed ==
    PutInFlight("moveRunToCategory") =>
        /\ Pushed.categoryId = move.newCategory[1].categoryId
        /\ Pairs(move.newCategory[1].subcategories) \subseteq Pairs(Pushed.values.items)

\* C7: the settings editRun pushes are the fetched ones with exactly the fields
\* of params replaced by the values params gives.
C7_Merge ==
    PutInFlight("editRun") =>
        LET fetched == log[Len(log)].data[1] IN
        /\ DOMAIN Pushed = DOMAIN fetched \cup DOMAIN op.params
        /\ \A k \in DOMAIN Pushed :
              Pushed[k] = IF k \in DOMAIN op.params THEN op.params[k] ELSE fetched[k]
\* only the comment is edited: it is replaced, the selections and category kept
C7_Witness ==
    /\ PutInFlight("editRun")
    /\ DOMAIN op.params = {"comment"}
    /\ Pushed.comment = "new"
    /\ log[Len(log)].data[1].comment = "old"
    /\ Pushed.values = log[Len(log)].data[1].values
    /\ Len(Pushed.values.items) > 0
    /\ Pushed.categoryId = log[Len(log)].data[1].categoryId

\* C10: editRun returns false without any PutRunSettings call when the fetch of
\* the settings failed; otherwise it issues exactly one PutRunSettings call, with
\* the CSRF token in its body, and returns true exactly when that call got 200.
C10_EditRunResult ==
    (pc = "done" /\ op.name = "editRun") =>
        LET IsPut(call) == call.route = "PutRunSettings"
            puts == SelectSeq(log, IsPut)
        IN  /\ result.kind = "returned"
            /\ log[1].route = "GetRunSettings"
            /\ IF log[1].status # 200
               THEN result.value = "false" /\ Len(puts) = 0
               ELSE /\ Len(puts) = 1
                    /\ "csrfToken" \in DOMAIN puts[1].body
                    /\ puts[1].body.csrfToken = csrfToken
                    /\ result.value = (IF puts[1].status = 200 THEN "true" ELSE "false")
\* the push was refused: one call, and false
C10_Witness ==
    /\ pc = "done" /\ op.name = "editRun"
    /\ Len(log) = 2
    /\ log[2].route = "PutRunSettings"
    /\ log[2].status = 404
    /\ result = Returned("false")

\* the leaderboard calls answered so far, in order
IsPageFetch(call) == call.route = "GetGameLeaderboard2"
PageFetches == SelectSeq(log, IsPageFetch)
\* the run ids of the pages among calls that were answered with a payload
RECURSIVE RunIdsOf(_)
RunIdsOf(calls) ==
    IF calls = <<>> THEN <<>>
    ELSE (IF Head(calls).data = None THEN <<>>
          ELSE [k \in DOMAIN Head(calls).data[1].runList |-> Head(calls).data[1].runList[k].id])
         \o RunIdsOf(Tail(calls))

\* C1 (as claimed): when the resolution and every page fetch succeed and the
\* first page reports P >= 1 pages, getAllRunsInCategory fetches the pages 1..P
\* in ascending order and returns the run ids of all P pages in page order.
C1_EveryPageFetched ==
    (/\ pc = "done" /\ op.name = "getAllRunsInCategory"
     /\ AllFetched /\ result.kind = "returned" /\ result.value # None
     /\ Pages >= 1)
        => /\ [k \in DOMAIN PageFetches |-> PageFetches[k].body.page] = [k \in 1..Pages |-> k]
           /\ result.value[1] = [k \in 1..leaderboard.count |-> k]

\* C2 (as claimed): editAllRunsInCategory returns true when the enumeration
\* succeeded, whatever the editRun calls returned, and false when it was null.
C2_EditAllResult ==
    (pc = "done" /\ op.name = "editAllRunsInCategory" /\ result.kind = "returned") =>
        result.value = (IF local.runs = None THEN "false" ELSE "true")

\* C6 (as claimed): when the first page is fetched and the fetch of a later page
\* fails, getAllRunsInCategory still returns the run ids of the pages that were
\* fetched, in page order; it neither throws nor returns null.
C6_LaterPageTolerated ==
    (/\ pc = "done" /\ op.name = "getAllRunsInCategory"
     /\ Len(PageFetches) > 1
     /\ PageFetches[1].status = 200
     /\ \E k \in 2..Len(PageFetches) : PageFetches[k].status # 200)
        => /\ result.kind = "returned"
           /\ result.value # None
           /\ result.value[1] = RunIdsOf(PageFetches)

\* the remote calls issued so far, answered or not, in order
Calls == [k \in DOMAIN log |-> [route |-> log[k].route, body |-> log[k].body]] \o inflight
IsRunCall(call) == call.route \in {"GetRunSettings", "PutRunSettings"}
IsLookupCall(call) == call.route \in {"GetGameData", "GetGameLeaderboard2"}
RunCalls == SelectSeq(Calls, IsRunCall)
LookupCalls == SelectSeq(Calls, IsLookupCall)
StagesDone == local.runs # None /\ local.oldCategoryId # None /\ local.newCategoryId # None

RunIdOf(call) == IF call.route = "PutRunSettings" THEN call.body.settings.runId ELSE call.body.runId
\* a sequence with every run of equal consecutive elements collapsed to one
RECURSIVE Collapse(_)
Collapse(s) ==
    IF Len(s) <= 1 THEN s
    ELSE IF s[1] = s[2] THEN Collapse(Tail(s))
    ELSE <<s[1]>> \o Collapse(Tail(s))
\* the runs the per-run calls issued so far were about, in order
Processed == Collapse([k \in DOMAIN RunCalls |-> RunIdOf(RunCalls[k])])
IsPrefix(s, t) == Len(s) <= Len(t) /\ s = SubSeq(t, 1, Len(s))
IsBulk == op.name \in {"editAllRunsInCategory", "moveAllRunsInCategory"}

\* C12: in a bulk operation the enumerated sequence is in leaderboard order (page
\* ascending, list order within a page); the runs the per-run calls are about are,
\* in order and each in one stretch, a prefix of it, and the whole of it once the
\* operation has returned, whatever the per-run calls were answered with.
C12_EachRunOnceInOrder ==
    (IsBulk /\ local.runs # None) =>
        /\ \A k \in DOMAIN local.runs[1] : local.runs[1][k] = k
        /\ IsPrefix(Processed, local.runs[1])
        /\ (pc = "done" /\ (op.name = "moveAllRunsInCategory" => StagesDone)) =>
              Processed = local.runs[1]
\* the first run's settings could not be fetched, a later run was still pushed
C12_Witness ==
    /\ IsBulk /\ pc = "done" /\ local.runs # None
    /\ Len(local.runs[1]) >= 2
    /\ \E i, j \in DOMAIN log :
          /\ i < j
          /\ log[i].route = "GetRunSettings" /\ log[i].body.runId = local.runs[1][1]
          /\ log[i].status # 200
          /\ log[j].route = "PutRunSettings" /\ log[j].body.settings.runId = local.runs[1][2]
          /\ log[j].status = 200

\* the settings the last answered GetRunSettings call returned
LastFetched == log[Len(log)].data[1]

\* C13 (as claimed): the selection list a move pushes is derived from the settings
\* its last GetRunSettings call returned: every selection of that fetch that is
\* not one of the old category's pairs is pushed, and every pushed selection is one
\* of that fetch or one of the new category's pairs.
C13_FreshSelections ==
    (PutInFlight("moveRunToCategory") /\ LastFetched.values.kind = "array") =>
        /\ Pushed.comment = LastFetched.comment
        /\ Pushed.values.kind = "array"
        /\ Pairs(LastFetched.values.items) \ Pairs(move.oldCategory[1].subcategories)
              \subseteq Pairs(Pushed.values.items)
        /\ Pairs(Pushed.values.items) \subseteq
              Pairs(LastFetched.values.items) \cup Pairs(move.newCategory[1].subcategories)

\* C14 (as claimed): a getSubcategoryIdFromNames call one of whose snapshot
\* fetches was answered with a status other than 200 returns null; it does not
\* end in a fault, whichever of its fetches it was.
C14_AbsenceAsData ==
    (pc = "done" /\ op.name = "getSubcategoryIdFromNames" /\ ~AllFetched) =>
        result = Returned(None)

\* C15: every pair of a non-null result of getSubcategoryIdFromNames names a
\* variable of the snapshot that belongs to the result's category and is flagged
\* isSubcategory, and a value of the snapshot that belongs to that variable.
C15_PairsScoped ==
    (pc = "done" /\ op.name = "getSubcategoryIdFromNames"
     /\ result.kind = "returned" /\ result.value # None) =>
        LET r == result.value[1] IN
        \A i \in DOMAIN r.subcategories :
            /\ \E k \in DOMAIN gameData.variables :
                  /\ gameData.variables[k].id = r.subcategories[i].variableId
                  /\ gameData.variables[k].categoryId = r.categoryId
                  /\ gameData.variables[k].isSubcategory
            /\ \E j \in DOMAIN gameData.values :
                  /\ gameData.values[j].id = r.subcategories[i].valueId
                  /\ gameData.values[j].variableId = r.subcategories[i].variableId
\* two names resolved to values of two variables of the category
C15_Witness ==
    /\ pc = "done" /\ op.name = "getSubcategoryIdFromNames"
    /\ result.kind = "returned" /\ result.value # None
    /\ Len(result.value[1].subcategories) = 2
    /\ result.value[1].subcategories[1].variableId # result.value[1].subcategories[2].variableId

\* C16: whatever method is running, at most one remote call is in flight, and a
\* call is issued only once every call issued before it has been answered.
C16_OneCallInFlight ==
    /\ Len(inflight) <= 1
    /\ Len(Calls) <= Len(log) + 1
\* a bulk operation waiting for the settings of its second run, the push of its
\* first run answered
C16_Witness ==
    /\ IsBulk
    /\ Len(inflight) = 1
    /\ inflight[1].route = "GetRunSettings" /\ inflight[1].body.runId = 2
    /\ \E k \in DOMAIN log : log[k].route = "PutRunSettings" /\ log[k].body.settings.runId = 1
====
